---- MODULE Spec2Model ----
(***************************************************************************)
(* Model of src/util.rs of unqlite.rs: the Util trait (random_string,      *)
(* random_num), load_mmaped_file and the Mmap resource with its Drop.      *)
(*                                                                         *)
(* The engine (unqlite_util_* of crate::ffi) and the status adapter        *)
(* (crate::error::Wrap, the wrap! macro) are not part of util.rs; they are *)
(* modelled from their documented interface: an engine call answers with   *)
(* any status, and wrap turns status 0 into Ok and any other into Err.     *)
(***************************************************************************)
EXTENDS Integers, Sequences, FiniteSets, TLC

\* ------------------------------------------------------------- bounds
MaxPathLen == 2
MaxMapCalls == 2
NumAddrs == 2

MaxBufSize == 2
MaxSeed == 3

\* ------------------------------------------------------------- inputs
\* Lengths asked of random_string: the small ones, the one of
\* test_random_string (32) and a page (4096).
BufSizes == (0..MaxBufSize) \cup {32, 4096}
\* States of the engine's PRNG.
Seeds == 0..MaxSeed
\* Values of the engine's 32-bit generator, as <<high, low>> 16-bit halves:
\* 0, 1, 0x80000000 and 0xFFFFFFFF.
EngineValues == {<<0, 0>>, <<0, 1>>, <<32768, 0>>, <<65535, 65535>>}
\* Bytes that memory the engine did not fill can hold.
GarbageBytes == {0, 255}

\* Bytes a path is built from: nul, 'a', and the two bytes of U+00E9 (0xC3 0xA9),
\* each of which alone is not UTF-8.
PathBytes == {0, 97, 195, 169}

RECURSIVE SeqsUpTo(_, _)
SeqsUpTo(S, n) ==
    IF n = 0 THEN {<< >>}
    ELSE LET shorter == SeqsUpTo(S, n - 1)
         IN  shorter \cup {Append(s, b) : s \in {t \in shorter : Len(t) = n - 1}, b \in S}

Paths == SeqsUpTo(PathBytes, MaxPathLen)

\* Scopes (bindings `let m = ...`) that can own an Mmap.
Owners == {"f", "g"}

\* The ways a scope ends.
Exits == {"normal", "early_return", "unwind"}

\* Engine status codes: UNQLITE_OK, UNQLITE_IOERR, UNQLITE_NOTIMPLEMENTED.
StatusOk == {0}
Statuses == {0, -2, -17}

\* Addresses the engine hands out for mappings.
Addrs == 1..NumAddrs
\* Line 48 reads a pointer that was never written
\* (MaybeUninit::uninit().assume_init()), which is undefined behaviour. A build
\* gives the read a bit pattern ("value") and goes on, or has compiled the
\* function to a trap that ends the process at the call ("trap"), or has taken
\* the call for unreachable and removed it, so that the caller runs on past it
\* with no call made and no result ("skipped").
UninitReads == {"value", "trap", "skipped"}
\* The bit pattern a "value" read leaves in ptr: here one that is no mapping's
\* address (0) and one that is.
GarbagePtrs == {0, 1}
\* Sizes of the files mapped: the 13 bytes of "Hello, world!" (test_mmap).
FileSizes == {13}

\* Sizes an owner assigns to the size field of its Mmap.
WrittenSizes == {0}
\* Addresses an owner assigns to the ptr field of its Mmap.
WrittenPtrs == {2}
\* The fields of the Mmaps written as struct literals, Mmap { ptr: 1, size: 13 }.
LiteralPtrs == {1}
LiteralSizes == {13}
\* What the engine's unmap call answers: success or UNQLITE_IOERR.
UnmapStatuses == {0, -2}

\* call is the map call an Mmap came from; an Mmap written as a struct literal
\* came from none (call 0).
NoMmap == [ptr |-> 0, size |-> 0, call |-> 0]
\* What a moved-out binding keeps of the Mmap it held: the fields can no
\* longer be read, only which Mmap it was is remembered.
MovedOut(m) == [ptr |-> 0, size |-> 0, call |-> m.call]

VARIABLES
    slots,      \* owner -> [state: "empty" | "active" | "moved" | "dropped", mmap];
                \* moved and dropped bindings are both moved-out: the value went
                \* to another binding, or into drop()
    mapLog,     \* the engine's map calls, in order: [status, addr, size, unmaps],
                \* unmaps being the unmap calls made for the Mmap of the call
    last,       \* what the operation just made did and answered
    rs,         \* outcome of the random_string call just made
    rn          \* outcome of the random_num call just made, and of the one before

rand == <<rs, rn>>
vars == <<slots, mapLog, last, rs, rn>>

\* The process runs until a call of load_mmaped_file has trapped.
Alive == ~(last.op = "load" /\ last.outcome = "killed")

\* ------------------------------------------------------------- status adapter
\* crate::error::Wrap: status 0 is Ok(()), any other an EngineError with the code.
Wrap(status) ==
    IF status \in StatusOk THEN [ok |-> TRUE, err |-> "none", code |-> 0]
    ELSE [ok |-> FALSE, err |-> "EngineError", code |-> status]

\* ------------------------------------------------------------- path conversion
Cont(b) == b \in 128..191

\* Path::to_str: Some exactly when the bytes are valid UTF-8.
RECURSIVE IsUtf8(_)
IsUtf8(s) ==
    IF s = << >> THEN TRUE
    ELSE LET n == Len(s)
             b == s[1]
             rest(k) == SubSeq(s, k + 1, n)
         IN  IF b < 128 THEN IsUtf8(rest(1))
             ELSE IF b \in 194..223
                  THEN n >= 2 /\ Cont(s[2]) /\ IsUtf8(rest(2))
             ELSE IF b \in 224..239
                  THEN /\ n >= 3 /\ Cont(s[2]) /\ Cont(s[3])
                       /\ (b = 224 => s[2] >= 160)
                       /\ (b = 237 => s[2] <= 159)
                       /\ IsUtf8(rest(3))
             ELSE IF b \in 240..244
                  THEN /\ n >= 4 /\ Cont(s[2]) /\ Cont(s[3]) /\ Cont(s[4])
                       /\ (b = 240 => s[2] >= 144)
                       /\ (b = 244 => s[2] <= 143)
                       /\ IsUtf8(rest(4))
             ELSE FALSE

\* CString::new: memchr(0, bytes) finds an interior nul.
HasNul(s) == \E i \in 1..Len(s) : s[i] = 0

\* Line 50, up to the engine call: "panic" (expect on to_str), "nul_error"
\* (CString::new(..)? returns the converted NulError), or "cstring".
PathToCString(path) ==
    IF ~IsUtf8(path) THEN "panic"
    ELSE IF HasNul(path) THEN "nul_error"
    ELSE "cstring"

\* load_mmaped_file tells paths apart only by these two tests; the calls made
\* take one path of each kind that the paths of the bounded length show.
PathKind(p) == <<HasNul(p), IsUtf8(p)>>
CallPaths == {CHOOSE p \in Paths : PathKind(p) = k : k \in {PathKind(q) : q \in Paths}}

\* ------------------------------------------------------------- engine (mapping)
\* A mapping is live from a successful map call until a successful unmap of it.
Unmapped(e) ==
    \E i \in 1..Len(e.unmaps) :
        e.unmaps[i].status \in StatusOk /\ e.unmaps[i].ptr = e.addr
LiveAddrs ==
    {mapLog[c].addr : c \in {d \in 1..Len(mapLog) :
                                mapLog[d].status \in StatusOk /\ ~Unmapped(mapLog[d])}}
FreeAddrs == Addrs \ LiveAddrs

\* The address of the next mapping: the lowest one not in use.
NextAddr == CHOOSE a \in FreeAddrs : \A b \in FreeAddrs : a <= b

\* unqlite_util_load_mmaped_file(cpath, &mut ptr, &mut size): on success the
\* engine stores the address and the file size through the out-pointers; on
\* failure it leaves them as they were.
EngineMap(status, addr, fsize, ptr0, size0) ==
    IF status \in StatusOk THEN [status |-> status, ptr |-> addr, size |-> fsize]
    ELSE [status |-> status, ptr |-> ptr0, size |-> size0]

\* ------------------------------------------------------------- load_mmaped_file
\* What the call answers. uninit is what the read of the uninitialised ptr
\* (line 48) does and garbage the bit pattern it yields; the trap and the
\* removed call come before the path is looked at. size starts at 0 (line 49); callId numbers the
\* engine call.
LoadMapsAnyStatus(path, uninit, garbage, status, addr, fsize, callId) ==
    LET conv == PathToCString(path)
        out  == EngineMap(status, addr, fsize, garbage, 0)
    IN  IF uninit = "trap"
        THEN [outcome |-> "killed", err |-> "none", code |-> 0,
              engineCalled |-> FALSE, mmap |-> NoMmap]
        ELSE IF uninit = "skipped"
        THEN [outcome |-> "skipped", err |-> "none", code |-> 0,
              engineCalled |-> FALSE, mmap |-> NoMmap]
        ELSE IF conv = "panic"
        THEN [outcome |-> "panic", err |-> "none", code |-> 0,
              engineCalled |-> FALSE, mmap |-> NoMmap]
        ELSE IF conv = "nul_error"
        THEN [outcome |-> "err", err |-> "PathEncodingError", code |-> 0,
              engineCalled |-> FALSE, mmap |-> NoMmap]
        ELSE [outcome |-> "ok", err |-> "none", code |-> 0, engineCalled |-> TRUE,
              mmap |-> [ptr |-> out.ptr, size |-> out.size, call |-> callId]]

LoadWrapsUnwrittenOut(path, uninit, garbage, status, addr, fsize, callId) ==
    LET conv == PathToCString(path)
        out  == EngineMap(status, addr, fsize, garbage, 0)
        r    == Wrap(out.status)
    IN  IF uninit = "trap"
        THEN [outcome |-> "killed", err |-> "none", code |-> 0,
              engineCalled |-> FALSE, mmap |-> NoMmap]
        ELSE IF uninit = "skipped"
        THEN [outcome |-> "skipped", err |-> "none", code |-> 0,
              engineCalled |-> FALSE, mmap |-> NoMmap]
        ELSE IF conv = "panic"
        THEN [outcome |-> "panic", err |-> "none", code |-> 0,
              engineCalled |-> FALSE, mmap |-> NoMmap]
        ELSE IF conv = "nul_error"
        THEN [outcome |-> "err", err |-> "PathEncodingError", code |-> 0,
              engineCalled |-> FALSE, mmap |-> NoMmap]
        ELSE IF r.ok
        THEN [outcome |-> "ok", err |-> "none", code |-> 0, engineCalled |-> TRUE,
              mmap |-> [ptr |-> garbage, size |-> 0, call |-> callId]]
        ELSE [outcome |-> "err", err |-> r.err, code |-> r.code,
              engineCalled |-> TRUE, mmap |-> NoMmap]

LoadResult(path, uninit, garbage, status, addr, fsize, callId) ==
    LET conv == PathToCString(path)
        out  == EngineMap(status, addr, fsize, garbage, 0)
        r    == Wrap(out.status)
    IN  IF uninit = "trap"
        THEN [outcome |-> "killed", err |-> "none", code |-> 0,
              engineCalled |-> FALSE, mmap |-> NoMmap]
        ELSE IF uninit = "skipped"
        THEN [outcome |-> "skipped", err |-> "none", code |-> 0,
              engineCalled |-> FALSE, mmap |-> NoMmap]
        ELSE IF conv = "panic"
        THEN [outcome |-> "panic", err |-> "none", code |-> 0,
              engineCalled |-> FALSE, mmap |-> NoMmap]
        ELSE IF conv = "nul_error"
        THEN [outcome |-> "err", err |-> "PathEncodingError", code |-> 0,
              engineCalled |-> FALSE, mmap |-> NoMmap]
        ELSE IF r.ok
        THEN [outcome |-> "ok", err |-> "none", code |-> 0, engineCalled |-> TRUE,
              mmap |-> [ptr |-> out.ptr, size |-> out.size, call |-> callId]]
        ELSE [outcome |-> "err", err |-> r.err, code |-> r.code,
              engineCalled |-> TRUE, mmap |-> NoMmap]

\* let m = load_mmaped_file(path) in scope o.
LoadMmapedFile(o, path, uninit, garbage, status, fsize) ==
    /\ Alive
    /\ slots[o].state = "empty"
    /\ Len(mapLog) < MaxMapCalls
    /\ status \in StatusOk => FreeAddrs /= {}
    /\ LET addr == IF status \in StatusOk THEN NextAddr ELSE 0
           res  == LoadResult(path, uninit, garbage, status, addr, fsize,
                                 Len(mapLog) + 1)
       IN  /\ last' = [op |-> "load", hasNul |-> HasNul(path), utf8 |-> IsUtf8(path),
                       outcome |-> res.outcome,
                       err |-> res.err, code |-> res.code,
                       engineCalled |-> res.engineCalled,
                       status |-> IF res.engineCalled THEN status ELSE 0,
                       call |-> IF res.engineCalled THEN Len(mapLog) + 1 ELSE 0]
           /\ mapLog' = IF res.engineCalled
                        THEN Append(mapLog,
                                 [status |-> status, addr |-> addr,
                                  size |-> IF status \in StatusOk THEN fsize ELSE 0,
                                  unmaps |-> << >>])
                        ELSE mapLog
           /\ slots' = IF res.outcome = "ok"
                       THEN [slots EXCEPT ![o] = [state |-> "active", mmap |-> res.mmap]]
                       ELSE slots
    /\ UNCHANGED rand

\* ------------------------------------------------------------- Mmap: move and drop
\* Mmap derives neither Copy nor Clone: passing it on transfers it, and the
\* binding left behind is moved-out.
MoveCopies(s, from, to) ==
    [s EXCEPT ![to] = [state |-> "active", mmap |-> s[from].mmap]]

MoveSlots(s, from, to) ==
    [s EXCEPT ![to] = [state |-> "active", mmap |-> s[from].mmap],
              ![from] = [state |-> "moved", mmap |-> MovedOut(s[from].mmap)]]

Move(from, to) ==
    /\ Alive
    /\ from /= to
    /\ slots[from].state = "active"
    /\ slots[to].state = "empty"
    /\ slots' = MoveSlots(slots, from, to)
    /\ last' = [op |-> "move", call |-> slots[from].mmap.call]
    /\ UNCHANGED <<mapLog, rand>>

\* ptr and size are pub fields (lines 62-63): the owner of the binding can
\* assign them, m.ptr = p and m.size = sz.
AssignPtr(s, o, p) ==
    [s EXCEPT ![o] = [state |-> s[o].state,
                      mmap |-> [ptr |-> p, size |-> s[o].mmap.size,
                                call |-> s[o].mmap.call]]]

AssignSize(s, o, sz) ==
    [s EXCEPT ![o] = [state |-> s[o].state,
                      mmap |-> [ptr |-> s[o].mmap.ptr, size |-> sz,
                                call |-> s[o].mmap.call]]]

\* One assignment to one field of the Mmap that binding o holds.
Assign(o, field, v) ==
    /\ Alive
    /\ slots[o].state = "active"
    /\ v /= slots[o].mmap[field]
    /\ slots' = IF field = "ptr" THEN AssignPtr(slots, o, v) ELSE AssignSize(slots, o, v)
    /\ last' = [op |-> "assign", call |-> slots[o].mmap.call]
    /\ UNCHANGED <<mapLog, rand>>

\* let m = Mmap { ptr: p, size: sz } in scope o: the struct and its fields
\* are pub, so an Mmap can be written without a call of load_mmaped_file.
MmapLiteral(o, p, sz) ==
    /\ Alive
    /\ slots[o].state = "empty"
    /\ slots' = [slots EXCEPT ![o] = [state |-> "active",
                                      mmap |-> [ptr |-> p, size |-> sz, call |-> 0]]]
    /\ last' = [op |-> "literal", call |-> 0]
    /\ UNCHANGED <<mapLog, rand>>

\* Drop::drop, line 68: the unmap call's result is wrapped and discarded.
DropUnwraps(status) == IF Wrap(status).ok THEN "done" ELSE "panic"

DropOutcome(status) == "done"

\* The engine's record of the unmap call Drop::drop makes on m, kept with the
\* map call m came from: the address it was asked to unmap and its answer.
\* The size passed with the address is in `last`, and so is the whole unmap
\* call of an Mmap that came from no map call.
DropMmap(log, m, status) ==
    IF m.call = 0 THEN log
    ELSE [log EXCEPT ![m.call].unmaps =
              Append(@, [ptr |-> m.ptr, status |-> status])]

\* Whether the end of a binding's scope runs Drop::drop on it: on every exit,
\* and only when the binding still holds its value.
RunsDropNotOnUnwind(slot, how) == slot.state = "active" /\ how /= "unwind"

RunsDropOnMovedOut(slot, how) == slot.state \in {"active", "moved", "dropped"}

RunsDrop(slot, how) == slot.state = "active"

\* The scope of binding o ends.
ScopeEnd(o, how, status) ==
    /\ Alive
    /\ slots[o].state /= "empty"
    /\ LET m == slots[o].mmap
           ran == RunsDrop(slots[o], how)
       IN  /\ ~ran => status = 0
           /\ mapLog' = IF ran THEN DropMmap(mapLog, m, status) ELSE mapLog
           /\ last' = [op |-> "scope_end", how |-> how, call |-> m.call, ran |-> ran,
                       was |-> slots[o].state,
                       ptr |-> IF ran THEN m.ptr ELSE 0,
                       size |-> IF ran THEN m.size ELSE 0,
                       status |-> status,
                       outcome |-> IF ran THEN DropOutcome(status) ELSE "done"]
    /\ slots' = [slots EXCEPT ![o] = [state |-> "empty", mmap |-> NoMmap]]
    /\ UNCHANGED rand

\* drop(m): the explicit release; m is moved into drop and released there.
ExplicitDrop(o, status) ==
    /\ Alive
    /\ slots[o].state = "active"
    /\ LET m == slots[o].mmap
       IN  /\ mapLog' = DropMmap(mapLog, m, status)
           /\ last' = [op |-> "drop", how |-> "explicit", call |-> m.call,
                       ran |-> TRUE, was |-> "active",
                       ptr |-> m.ptr, size |-> m.size, status |-> status,
                       outcome |-> DropOutcome(status)]
           /\ slots' = [slots EXCEPT ![o] = [state |-> "dropped",
                                             mmap |-> MovedOut(m)]]
    /\ UNCHANGED rand

\* No call of the kind has just been made.
NoRs == [called |-> FALSE]
NoRn == [called |-> FALSE]

\* ------------------------------------------------------------- random_string
\* The English alphabet the engine draws from: A-Z, a-z.
Letters == (65..90) \cup (97..122)
Alphabet == [i \in 1..52 |-> IF i <= 26 THEN 64 + i ELSE 70 + i]

\* Byte i of the string the engine generates from a PRNG state.
EngineByte(seed, i) == Alphabet[((seed + i) % 52) + 1]

\* Vec::with_capacity(n), line 28: no elements, room for n.
VecWithCapacity(n) == [len |-> 0, cap |-> n, bytes |-> << >>]

\* CString::new(vec), line 29: fails on an interior nul; otherwise
\* reserve_exact(1), push(0), into_boxed_slice(): the box holds exactly the
\* bytes of the Vec and the terminator, whatever capacity the Vec had.
CStringNew(v) ==
    IF HasNul(v.bytes) THEN [ok |-> FALSE, cap |-> 0, bytes |-> << >>]
    ELSE LET reserved == IF v.cap - v.len >= 1 THEN v.cap ELSE v.len + 1
             pushed   == [len |-> v.len + 1, cap |-> reserved,
                          bytes |-> Append(v.bytes, 0)]
         IN  [ok |-> TRUE, cap |-> pushed.len, bytes |-> pushed.bytes]

\* unqlite_util_random_string(db, z_buf, n): the engine writes k bytes from
\* z_buf on (all n when it succeeds). Those within the allocation change it;
\* oob counts those written past its end.
EngineFill(alloc, k, seed) ==
    LET inside == IF k <= alloc.cap THEN k ELSE alloc.cap
    IN  [bytes |-> [i \in 1..alloc.cap |->
                       IF i <= inside THEN EngineByte(seed, i) ELSE alloc.bytes[i]],
         oob |-> k - inside]

\* Lines 30-32: .wrap().unwrap() panics with the error of a failed call.
FillOutcome(status) == IF Wrap(status).ok THEN "continue" ELSE "panic"

\* Lines 30-32 hold one call of the engine and no loop around it: the engine
\* is invoked once, whatever it answers.
FillCallsRetried(status) == IF Wrap(status).ok THEN 1 ELSE 2

FillCalls(status) == 1

\* Who owns the buffer when the call has ended. into_raw (line 29) gives the
\* box up as a raw address; only Vec::from_raw_parts (line 33) takes it back,
\* and a Vec of capacity 0 owns no allocation.
BufferOwner(outcome, vecCap) ==
    IF outcome = "returned" /\ vecCap > 0 THEN "result" ELSE "none"

\* Vec::from_raw_parts(z_buf, len, cap), line 33: the len bytes at z_buf.
\* Those past the end of the allocation are whatever that memory holds: the
\* engine's byte where its write landed and stayed, another byte otherwise.
VecFromRawParts(alloc, len, cap, k, seed, ub, g) ==
    [len |-> len, cap |-> cap,
     bytes |-> [i \in 1..len |->
                   IF i <= alloc.cap THEN alloc.bytes[i]
                   ELSE IF ub = "landed" /\ i <= k THEN EngineByte(seed, i)
                   ELSE g]]

\* random_string(buf_size). status, k and seed are the engine's answer; ub
\* and g decide what a write past the allocation leads to.
RandomString(buf_size, status, k, seed, ub, g) ==
    LET vec    == VecWithCapacity(buf_size)
        cstr   == CStringNew(vec)
        z_buf  == [cap |-> cstr.cap, bytes |-> cstr.bytes]
        filled == EngineFill(z_buf, k, seed)
        after  == [cap |-> z_buf.cap, bytes |-> filled.bytes]
        crash  == filled.oob > 0 /\ ub = "crash"
        step   == FillOutcome(status)
        vecOut == VecFromRawParts(after, buf_size, buf_size, k, seed, ub, g)
        base   == [called |-> TRUE, bufSize |-> buf_size, callCap |-> z_buf.cap,
                   callLen |-> buf_size, status |-> status,
                   written |-> [i \in 1..k |-> EngineByte(seed, i)],
                   oob |-> filled.oob, fillCalls |-> FillCalls(status),
                   allocCap |-> z_buf.cap]
    IN  /\ cstr.ok
        /\ rs' = IF crash
                 THEN base @@ [outcome |-> "crashed", reinterpreted |-> FALSE,
                               result |-> << >>, err |-> "none", code |-> 0,
                               vecCap |-> 0, owner |-> BufferOwner("crashed", 0)]
                 ELSE IF step = "panic"
                 THEN base @@ [outcome |-> "panicked", reinterpreted |-> FALSE,
                               result |-> << >>, err |-> Wrap(status).err,
                               code |-> Wrap(status).code,
                               vecCap |-> 0, owner |-> BufferOwner("panicked", 0)]
                 ELSE base @@ [outcome |-> "returned", reinterpreted |-> TRUE,
                               result |-> vecOut.bytes, err |-> "none", code |-> 0,
                               vecCap |-> vecOut.cap,
                               owner |-> BufferOwner("returned", vecOut.cap)]
        /\ rn' = NoRn
        /\ UNCHANGED <<slots, mapLog, last>>

\* ------------------------------------------------------------- random_num
\* A u32 is written as its two 16-bit halves, <<high, low>>.
IsU32(v) == v[1] \in 0..65535 /\ v[2] \in 0..65535

\* Line 38: the value of the engine call is the value of random_num.
RandomNumKeeps31Bits(v) == <<v[1] % 32768, v[2]>>

RandomNumResult(v) == v

\* random_num(), the engine answering v.
RandomNum(v) ==
    /\ rn' = [called |-> TRUE, engineCalls |-> 1, engineValue |-> v,
              result |-> RandomNumResult(v), outcome |-> "returned",
              prevCalled |-> rn.called,
              prev |-> IF rn.called THEN rn.result ELSE <<0, 0>>]
    /\ rs' = NoRs
    /\ UNCHANGED <<slots, mapLog, last>>

\* ------------------------------------------------------------- specification
Init ==
    /\ slots = [o \in Owners |-> [state |-> "empty", mmap |-> NoMmap]]
    /\ mapLog = << >>
    /\ last = [op |-> "none"]
    /\ rs = NoRs
    /\ rn = NoRn

\* The bit pattern and the engine's answer are drawn only for the calls that
\* get as far as the engine.
Load ==
    \E o \in Owners, path \in CallPaths, uninit \in UninitReads :
        IF uninit = "value" /\ PathToCString(path) = "cstring"
        THEN \E garbage \in GarbagePtrs, status \in Statuses, fsize \in FileSizes :
                 LoadMmapedFile(o, path, uninit, garbage, status, fsize)
        ELSE LoadMmapedFile(o, path, uninit, 0, 0, 0)

MoveMmap == \E from \in Owners, to \in Owners : Move(from, to)

EndScope == \E o \in Owners, how \in Exits, status \in UnmapStatuses : ScopeEnd(o, how, status)

DropExplicit == \E o \in Owners, status \in UnmapStatuses : ExplicitDrop(o, status)

AssignMmap ==
    \E o \in Owners :
        \/ \E p \in WrittenPtrs : Assign(o, "ptr", p)
        \/ \E sz \in WrittenSizes \cup FileSizes : Assign(o, "size", sz)

BuildMmap == \E o \in Owners, p \in LiteralPtrs, sz \in LiteralSizes : MmapLiteral(o, p, sz)

Next == Load \/ MoveMmap \/ EndScope \/ DropExplicit \/ AssignMmap \/ BuildMmap

Spec == Init /\ [][Next]_vars

\* The engine writes all the bytes when it succeeds, and none, one or all of
\* them when it fails.
WriteCounts(n, status) ==
    IF status \in StatusOk THEN {n} ELSE {k \in {0, 1, n} : k <= n}

\* A write inside the allocation has one outcome; nothing is drawn for it.
RandString ==
    \E n \in BufSizes, status \in Statuses, seed \in Seeds :
        \E k \in WriteCounts(n, status) :
            IF k > CStringNew(VecWithCapacity(n)).cap
            THEN \E ub \in {"landed", "clobbered", "crash"} :
                     \E g \in (IF ub = "clobbered" THEN GarbageBytes ELSE {0}) :
                         RandomString(n, status, k, seed, ub, g)
            ELSE RandomString(n, status, k, seed, "landed", 0)

RandNum == \E v \in EngineValues : RandomNum(v)

NextRand == RandString \/ RandNum

SpecRand == Init /\ [][NextRand]_vars

\* ------------------------------------------------------------- properties
Calls == 1..Len(mapLog)
\* The map calls that succeeded: each made one engine mapping.
OkCalls == {c \in Calls : mapLog[c].status \in StatusOk}
\* The bindings that hold the Mmap of map call c.
Holders(c) == {o \in Owners : slots[o].state = "active" /\ slots[o].mmap.call = c}
UnmapCount(c) == Len(mapLog[c].unmaps)
\* A resource is Active while a binding holds it and Released afterwards.
ResourceState(c) == IF Holders(c) /= {} THEN "Active" ELSE "Released"

\* C1: every Mmap a successful load_mmaped_file returned is unmapped exactly
\* once when the scope owning it ends, whether it ends normally, by an early
\* return or by unwinding: a scope end on a binding that holds the Mmap runs
\* the release, and a resource no binding holds any more has had exactly one
\* unmap call.
C1_ReleasedExactlyOnce ==
    /\ \A c \in OkCalls : ResourceState(c) = "Released" => UnmapCount(c) = 1
    /\ (last.op = "scope_end" /\ last.was = "active" /\ last.call \in OkCalls) =>
           (last.ran /\ UnmapCount(last.call) = 1)

\* A scope ended by unwinding while it held an Mmap, and the engine saw one unmap.
C1_Witness ==
    /\ last.op = "scope_end" /\ last.how = "unwind" /\ last.was = "active"
    /\ last.call \in OkCalls
    /\ UnmapCount(last.call) = 1

\* C2: a resource is Active or Released, is Active right after a successful
\* acquire, and once Released stays Released; a release request on a Released
\* resource (the scope end of a binding whose Mmap was dropped explicitly)
\* makes no unmap call and completes.
C2_ReleaseOnReleasedIsNoOp ==
    [][/\ \A c \in OkCalls :
              ResourceState(c) = "Released" =>
                  /\ ResourceState(c)' = "Released"
                  /\ mapLog'[c].unmaps = mapLog[c].unmaps
       /\ (last'.op = "load" /\ last'.outcome = "ok") =>
              /\ last'.call \notin OkCalls
              /\ \E o \in Owners : /\ slots'[o].state = "active"
                                    /\ slots'[o].mmap.call = last'.call
              /\ mapLog'[last'.call].unmaps = << >>
       /\ (last'.op = "scope_end" /\ last'.was = "dropped") =>
              /\ ~last'.ran
              /\ last'.outcome = "done"
              /\ mapLog' = mapLog]_vars

\* The scope of a binding ended after its Mmap had been released by drop().
C2_Witness ==
    /\ last.op = "scope_end" /\ last.was = "dropped"
    /\ last.call \in OkCalls
    /\ ResourceState(last.call) = "Released"
    /\ UnmapCount(last.call) = 1

\* C3: the region whose address random_string passes to the engine has a
\* capacity equal to buf_size at the call, so the engine writes no byte past
\* the end of the allocation.
C3_CapacityEqualsBufSize ==
    rs.called => (rs.callCap = rs.bufSize /\ rs.oob = 0)

\* C4: for a length in {0, 1, 32, 4096} and a successful engine call,
\* random_string returns exactly that many bytes, each the ASCII letter the
\* engine wrote there.
C4_ReturnsEngineLetters ==
    (rs.called /\ rs.bufSize \in {0, 1, 32, 4096} /\ rs.status \in StatusOk) =>
        /\ rs.outcome = "returned"
        /\ Len(rs.result) = rs.bufSize
        /\ \A i \in 1..Len(rs.result) :
               rs.result[i] \in Letters /\ rs.result[i] = rs.written[i]

\* C5: on an engine failure random_string returns to its caller an
\* EngineError carrying the adapted status, and no byte sequence.
C5_ReturnsEngineError ==
    (rs.called /\ rs.status \notin StatusOk) =>
        /\ rs.outcome = "returned"
        /\ rs.err = "EngineError" /\ rs.code = rs.status
        /\ ~rs.reinterpreted

\* C6: when the engine's map call fails, load_mmaped_file returns the
\* EngineError with the adapted status, no binding ever holds an Mmap of that
\* call, and no unmap call is made for it.
C6_FailedMapMakesNoMmap ==
    /\ \A c \in Calls :
           mapLog[c].status \notin StatusOk =>
               /\ mapLog[c].unmaps = << >>
               /\ \A o \in Owners : slots[o].mmap.call /= c
    /\ (last.op = "load" /\ last.engineCalled /\ last.status \notin StatusOk) =>
           /\ last.outcome = "err"
           /\ last.err = "EngineError"
           /\ last.code = last.status

\* A map call failed, and a scope has ended since.
C6_Witness ==
    /\ \E c \in Calls : mapLog[c].status \notin StatusOk
    /\ last.op = "scope_end"

\* C7: when the engine's unmap call fails during a release, the release
\* completes without a panic, the resource is Released, and no second unmap
\* call is made for it.
C7_FailedUnmapStillReleases ==
    /\ \A c \in OkCalls :
           (\E i \in 1..UnmapCount(c) : mapLog[c].unmaps[i].status \notin StatusOk) =>
               (UnmapCount(c) = 1 /\ ResourceState(c) = "Released")
    /\ (last.op \in {"scope_end", "drop"} /\ last.ran /\ last.status \notin StatusOk) =>
           last.outcome = "done"

\* The unmap call of a release failed, and operations went on after it.
C7_Witness ==
    /\ \E c \in OkCalls : UnmapCount(c) = 1 /\ mapLog[c].unmaps[1].status \notin StatusOk
    /\ last.op = "load"

\* C8: a path with an embedded nul byte is rejected with a PathEncodingError
\* before any engine call.
C8_NulPathRejected ==
    (last.op = "load" /\ last.hasNul) =>
        /\ last.outcome = "err"
        /\ last.err = "PathEncodingError"
        /\ ~last.engineCalled

\* C9: a path that is no engine-compatible string (it holds a nul byte, or is
\* not UTF-8) makes load_mmaped_file return a PathEncodingError.
C9_BadPathReturnsError ==
    (last.op = "load" /\ (last.hasNul \/ ~last.utf8)) =>
        (last.outcome = "err" /\ last.err = "PathEncodingError")

\* C10: an Mmap is moved, never copied: at most one binding holds the Mmap of
\* a map call, and the unmap call is made at most once for it, and only when
\* no binding holds it any more.
C10_AtMostOneOwner ==
    \A c \in OkCalls : Cardinality(Holders(c)) + UnmapCount(c) <= 1

\* An Mmap was moved to another binding and released at the end of its scope.
C10_Witness ==
    /\ last.op = "scope_end" /\ last.ran
    /\ last.call \in OkCalls
    /\ \E o \in Owners : slots[o].state = "moved" /\ slots[o].mmap.call = last.call
    /\ UnmapCount(last.call) = 1

\* C11: when the engine's map call succeeds, load_mmaped_file returns Ok with
\* an Active resource whose ptr is the address and whose size is the size the
\* engine reported (13 for the file holding "Hello, world!").
C11_OkCarriesEngineAnswer ==
    (last.op = "load" /\ last.engineCalled /\ last.status \in StatusOk) =>
        /\ last.outcome = "ok"
        /\ ResourceState(last.call) = "Active"
        /\ \A o \in Holders(last.call) :
               /\ slots[o].mmap.ptr = mapLog[last.call].addr
               /\ slots[o].mmap.size = mapLog[last.call].size

\* The 13-byte file was mapped and the Mmap returned reports 13 bytes.
C11_Witness ==
    /\ last.op = "load" /\ last.outcome = "ok"
    /\ mapLog[last.call].size = 13
    /\ \E o \in Holders(last.call) : slots[o].mmap.size = 13

\* C14: the address and size Drop::drop passes to the engine's unmap call are
\* the address and size the engine's map call returned for that resource,
\* whatever the owner did with the resource in between.
C14_UnmapGetsMappedRegion ==
    /\ \A c \in OkCalls : \A i \in 1..UnmapCount(c) :
           mapLog[c].unmaps[i].ptr = mapLog[c].addr
    /\ (last.op \in {"scope_end", "drop"} /\ last.ran /\ last.call \in OkCalls) =>
           /\ last.ptr = mapLog[last.call].addr
           /\ last.size = mapLog[last.call].size

\* C12: random_num makes one call of the engine's generator, cannot fail, and
\* returns the engine's value unchanged, an unsigned 32-bit value; a call may
\* return the value the call before it returned.
C12_RandomNumPassesThrough ==
    rn.called =>
        /\ rn.engineCalls = 1
        /\ rn.outcome = "returned"
        /\ rn.result = rn.engineValue
        /\ IsU32(rn.result)

\* Two successive calls returned 0xFFFFFFFF.
C12_Witness ==
    /\ rn.called /\ rn.prevCalled
    /\ rn.result = <<65535, 65535>>
    /\ rn.prev = rn.result

\* C13: every call of random_string invokes the engine's random-fill once,
\* whether the invocation succeeds or fails.
C13_OneEngineCallPerCall ==
    rs.called => rs.fillCalls = 1

\* The engine failed, was not asked again, and the call ended in its panic.
C13_Witness ==
    /\ rs.called /\ rs.status \notin StatusOk
    /\ rs.fillCalls = 1
    /\ rs.outcome = "panicked"
    /\ rs.bufSize = 32

\* C15: when a call of random_string has ended, by success or by engine
\* failure, the buffer it allocated is owned by the returned value or has been
\* freed, and the returned value frees it with the capacity it was allocated
\* with.
C15_BufferOwnedOrFreed ==
    (rs.called /\ rs.outcome \in {"returned", "panicked"}) =>
        /\ rs.owner \in {"result", "freed"}
        /\ rs.outcome = "returned" => rs.vecCap = rs.allocCap

====
